---- MODULE Spec2Model ----
(***************************************************************************)
(* Model of runo-search (src/src/lib.rs): the thread-local compiled-regex  *)
(* cache of search_file, the AND matcher search_file_impl and the position *)
(* resolver positions_to_line_results / extract_line_text.                 *)
(*                                                                         *)
(* Bytes and characters are integers (their code points); byte strings,    *)
(* pattern strings and texts are sequences of them.  Option and Result     *)
(* values are sequences of length at most one: <<>> is None / Err, <<x>>   *)
(* is Some(x) / Ok(x).  File offsets are 0-based as in the source, so the  *)
(* byte at offset k is bytes[k + 1].                                       *)
(***************************************************************************)
EXTENDS FiniteSets, Integers, Sequences, TLC

VARIABLES
    CACHED,         \* the thread-local cache slot: None or Some(CachedSearch)
    file,           \* what File::open + Mmap::map yield for file_path
    patterns,       \* arguments of the latest search_file call
    unicode,
    include_lines,
    out,            \* Vec<SearchLineResult> returned by the latest call
    outcome,        \* the return point the latest call left through
    opened,         \* the latest call reached File::open
    compiled,       \* the latest call ran the RegexBuilder
    last_compiled,  \* Some((patterns, unicode)) of the last successful compilation
    bytes,          \* argument of search_file_impl / positions_to_line_results
    regexes,        \* argument of search_file_impl
    positions,      \* argument of positions_to_line_results (mutated in place)
    pc,             \* position inside the function under test
    idx,            \* number of positions the for loop has consumed
    current_line,   \* locals of positions_to_line_results
    last_pos,
    seen_lines,
    results

vars == <<CACHED, file, patterns, unicode, include_lines, out, outcome, opened,
          compiled, last_compiled, bytes, regexes, positions, pc, idx,
          current_line, last_pos, seen_lines, results>>

callVars == <<CACHED, file, patterns, unicode, out, outcome, opened, compiled,
              last_compiled>>

walkVars == <<idx, current_line, last_pos, seen_lines>>

-----------------------------------------------------------------------------
(* Bounds *)

MaxPatterns == 2
MaxFileLen == 3
MaxPositions == 2

-----------------------------------------------------------------------------
(* Bytes and characters the code names *)

NUL == 0
LF == 10
CR == 13
DIGIT_0 == 48
DIGIT_1 == 49
REPLACEMENT_CHARACTER == 65533

None == <<>>
Some(x) == <<x>>

SeqsUpTo(S, n) == UNION {[1..k -> S] : k \in 0..n}

-----------------------------------------------------------------------------
(* The regex crate, for the pattern fragment "literal characters and        *)
(* groups": a pattern compiles iff its parentheses are balanced, and the   *)
(* compiled regex finds the pattern's literal, ASCII case-insensitively.   *)

RECURSIVE ParenScan(_, _, _)
ParenScan(pattern, i, depth) ==
    IF i > Len(pattern) THEN depth = 0
    ELSE IF pattern[i] = 40 THEN ParenScan(pattern, i + 1, depth + 1)
    ELSE IF pattern[i] = 41 THEN depth > 0 /\ ParenScan(pattern, i + 1, depth - 1)
    ELSE ParenScan(pattern, i + 1, depth)

IsParen(c) == c = 40 \/ c = 41
NotParen(c) == ~IsParen(c)

Literal(pattern) == SelectSeq(pattern, NotParen)

\* RegexBuilder::new(pattern).case_insensitive(true).multi_line(true)
\*     .unicode(unicode).build()
build(pattern, uni) ==
    IF ParenScan(pattern, 1, 0)
    THEN Some([pattern |-> pattern, unicode |-> uni])
    ELSE None

FoldCase(b) == IF b \in 65..90 THEN b + 32 ELSE b

MatchesAt(lit, bs, pos) ==
    /\ pos + Len(lit) <= Len(bs)
    /\ \A k \in 1..Len(lit) : FoldCase(bs[pos + k]) = FoldCase(lit[k])

RECURSIVE FindFrom(_, _, _)
FindFrom(lit, bs, pos) ==
    IF pos > Len(bs) THEN <<>>
    ELSE IF MatchesAt(lit, bs, pos)
         THEN <<pos>> \o FindFrom(lit, bs, IF Len(lit) = 0 THEN pos + 1 ELSE pos + Len(lit))
         ELSE FindFrom(lit, bs, pos + 1)

\* regex.find_iter(bytes).map(|m| m.start()).collect()
find_iter(regex, bs) == FindFrom(Literal(regex.pattern), bs, 0)

-----------------------------------------------------------------------------
(* memchr *)

\* Variant that counts only the needles strictly between from and to.
memchr_iter_count_exclusive(needle, bs, from, to) ==
    Cardinality({k \in (from + 1)..(to - 1) : bs[k + 1] = needle})

\* memchr_iter(needle, &bytes[from..to]).count()
memchr_iter_count(needle, bs, from, to) ==
    Cardinality({k \in from..(to - 1) : bs[k + 1] = needle})

\* memrchr(needle, &bytes[..to]): offset of the last needle below `to`
RECURSIVE memrchr(_, _, _)
memrchr(needle, bs, to) ==
    IF to = 0 THEN None
    ELSE IF bs[to] = needle THEN Some(to - 1)
    ELSE memrchr(needle, bs, to - 1)

\* memchr(needle, &bytes[from..]): offset, relative to `from`, of the first needle
RECURSIVE memchr_from(_, _, _, _)
memchr_from(needle, bs, from, i) ==
    IF from + i >= Len(bs) THEN None
    ELSE IF bs[from + i + 1] = needle THEN Some(i)
    ELSE memchr_from(needle, bs, from, i + 1)

memchr(needle, bs, from) == memchr_from(needle, bs, from, 0)

-----------------------------------------------------------------------------
(* Line number calculation and text extraction *)

\* String::from_utf8_lossy: an ASCII byte decodes to its own character; a
\* byte that starts no valid UTF-8 sequence (every byte >= 0xF8, the only
\* non-ASCII bytes the files below hold) decodes to U+FFFD.
RECURSIVE from_utf8_lossy(_)
from_utf8_lossy(bs) ==
    IF bs = <<>> THEN <<>>
    ELSE <<IF Head(bs) < 128 THEN Head(bs) ELSE REPLACEMENT_CHARACTER>>
         \o from_utf8_lossy(Tail(bs))

\* text.trim_end_matches(|c| c == '\r' || c == '\n')
RECURSIVE trim_end_matches(_)
trim_end_matches(text) ==
    IF text # <<>> /\ (text[Len(text)] = CR \/ text[Len(text)] = LF)
    THEN trim_end_matches(SubSeq(text, 1, Len(text) - 1))
    ELSE text

line_start(bs, pos) ==
    LET found == memrchr(LF, bs, pos)
    IN  IF found # None THEN found[1] + 1 ELSE 0

line_end(bs, pos) ==
    LET found == memchr(LF, bs, pos)
    IN  IF found # None THEN pos + found[1] ELSE Len(bs)

\* Variant of extract_line_text that strips at most one trailing '\r'.
extract_line_text_strip_one(bs, pos) ==
    LET text == from_utf8_lossy(SubSeq(bs, line_start(bs, pos) + 1, line_end(bs, pos)))
    IN  IF text # <<>> /\ text[Len(text)] = CR
        THEN SubSeq(text, 1, Len(text) - 1)
        ELSE text

extract_line_text(bs, pos) ==
    LET line_bytes == SubSeq(bs, line_start(bs, pos) + 1, line_end(bs, pos))
    IN  trim_end_matches(from_utf8_lossy(line_bytes))

\* positions.sort_unstable(); positions.dedup();
RECURSIVE SortedSeqOf(_)
SortedSeqOf(S) ==
    IF S = {} THEN <<>>
    ELSE LET least == CHOOSE x \in S : \A y \in S : x <= y
         IN  <<least>> \o SortedSeqOf(S \ {least})

sort_dedup(ps) == SortedSeqOf({ps[i] : i \in 1..Len(ps)})

\* The locals of positions_to_line_results before its for loop.
WalkInit ==
    [current_line |-> 1, last_pos |-> 0, seen_lines |-> {}, results |-> <<>>]

\* Variant of the loop body that pushes a result without consulting seen_lines.
WalkStep_no_seen(bs, st, pos, incl) ==
    LET line == st.current_line + memchr_iter_count(LF, bs, st.last_pos, pos)
    IN  [current_line |-> line,
         last_pos |-> pos,
         seen_lines |-> st.seen_lines \cup {line},
         results |-> Append(st.results,
                            [line |-> line,
                             text |-> IF incl THEN extract_line_text(bs, pos) ELSE <<>>])]

\* Variant of the loop body that extracts the text whatever include_lines is.
WalkStep_always_text(bs, st, pos, incl) ==
    LET line == st.current_line + memchr_iter_count(LF, bs, st.last_pos, pos)
    IN  [current_line |-> line,
         last_pos |-> pos,
         seen_lines |-> st.seen_lines \cup {line},
         results |-> IF line \notin st.seen_lines
                     THEN Append(st.results,
                                 [line |-> line, text |-> extract_line_text(bs, pos)])
                     ELSE st.results]

\* One iteration of `for &pos in positions.iter()`.
WalkStep(bs, st, pos, incl) ==
    LET line == st.current_line + memchr_iter_count(LF, bs, st.last_pos, pos)
    IN  [current_line |-> line,
         last_pos |-> pos,
         seen_lines |-> st.seen_lines \cup {line},
         results |-> IF line \notin st.seen_lines
                     THEN Append(st.results,
                                 [line |-> line,
                                  text |-> IF incl THEN extract_line_text(bs, pos) ELSE <<>>])
                     ELSE st.results]

RECURSIVE Walk(_, _, _, _, _)
Walk(bs, sorted, i, st, incl) ==
    IF i > Len(sorted) THEN st
    ELSE Walk(bs, sorted, i + 1, WalkStep(bs, st, sorted[i], incl), incl)

positions_to_line_results(bs, ps, incl) ==
    Walk(bs, sort_dedup(ps), 1, WalkInit, incl).results

-----------------------------------------------------------------------------
(* Core search logic *)

\* The for loop of search_file_impl: Some(all_match_positions), or None
\* when a regex has no match (the early exit).
RECURSIVE CollectMatches(_, _, _, _)
CollectMatches(bs, rs, i, all_match_positions) ==
    IF i > Len(rs) THEN Some(all_match_positions)
    ELSE LET matches == find_iter(rs[i], bs)
         IN  IF matches = <<>> THEN None
             ELSE CollectMatches(bs, rs, i + 1, all_match_positions \o matches)

RECURSIVE CollectMatches_no_exit(_, _, _, _)
CollectMatches_no_exit(bs, rs, i, all_match_positions) ==
    IF i > Len(rs) THEN all_match_positions
    ELSE CollectMatches_no_exit(bs, rs, i + 1,
                                all_match_positions \o find_iter(rs[i], bs))

\* Variant of search_file_impl without the early exit on an empty match list.
search_file_impl_no_exit(bs, rs, incl) ==
    positions_to_line_results(bs, CollectMatches_no_exit(bs, rs, 1, <<>>), incl)

search_file_impl(bs, rs, incl) ==
    LET collected == CollectMatches(bs, rs, 1, <<>>)
    IN  IF collected = None THEN <<>>
        ELSE positions_to_line_results(bs, collected[1], incl)

-----------------------------------------------------------------------------
(* Exported function search_file and its thread-local cache *)

RECURSIVE join(_, _)
join(pats, sep) ==
    IF Len(pats) = 0 THEN <<>>
    ELSE IF Len(pats) = 1 THEN pats[1]
    ELSE pats[1] \o sep \o join(Tail(pats), sep)

\* patterns.join("\0") followed by '\0' and '1' or '0'
cache_key(pats, uni) ==
    join(pats, <<NUL>>) \o <<NUL>> \o <<IF uni THEN DIGIT_1 ELSE DIGIT_0>>

\* patterns.iter().map(build).collect::<Result<Vec<Regex>, _>>()
RECURSIVE collect(_, _, _, _)
collect(pats, uni, i, acc) ==
    IF i > Len(pats) THEN Some(acc)
    ELSE LET r == build(pats[i], uni)
         IN  IF r = None THEN None
             ELSE collect(pats, uni, i + 1, Append(acc, r[1]))

new_regexes(pats, uni) == collect(pats, uni, 1, <<>>)

\* Variant of the get-or-compile match that empties the slot when a pattern
\* fails to compile.
GetOrCompile_clear_on_error(cache, key, pats, uni) ==
    IF cache # None /\ cache[1].cache_key = key
    THEN [slot |-> cache, regexes |-> Some(cache[1].regexes), compiled |-> FALSE]
    ELSE LET new == new_regexes(pats, uni)
         IN  IF new = None
             THEN [slot |-> None, regexes |-> None, compiled |-> TRUE]
             ELSE [slot |-> Some([cache_key |-> key, regexes |-> new[1]]),
                   regexes |-> new, compiled |-> TRUE]

\* Variant of the get-or-compile match that compiles even when the key matches.
GetOrCompile_always_compile(cache, key, pats, uni) ==
    LET new == new_regexes(pats, uni)
    IN  IF new = None
        THEN [slot |-> cache, regexes |-> None, compiled |-> TRUE]
        ELSE [slot |-> Some([cache_key |-> key, regexes |-> new[1]]),
              regexes |-> new, compiled |-> TRUE]

\* `let regexes = match &*cache { ... }`: the slot afterwards, the regexes to
\* search with (None for the early return) and whether the builder ran.
GetOrCompile(cache, key, pats, uni) ==
    IF cache # None /\ cache[1].cache_key = key
    THEN [slot |-> cache, regexes |-> Some(cache[1].regexes), compiled |-> FALSE]
    ELSE LET new == new_regexes(pats, uni)
         IN  IF new = None
             THEN [slot |-> cache, regexes |-> None, compiled |-> TRUE]
             ELSE [slot |-> Some([cache_key |-> key, regexes |-> new[1]]),
                   regexes |-> new, compiled |-> TRUE]

\* Variant of search_file that opens the file before it looks at the cache.
SearchFileCall_open_first(cache, f, pats, uni, incl) ==
    IF pats = <<>>
    THEN [slot |-> cache, out |-> <<>>, outcome |-> "EmptyPatterns",
          opened |-> FALSE, compiled |-> FALSE]
    ELSE IF f = None
    THEN [slot |-> cache, out |-> <<>>, outcome |-> "OpenFailure",
          opened |-> TRUE, compiled |-> FALSE]
    ELSE LET got == GetOrCompile(cache, cache_key(pats, uni), pats, uni)
         IN  IF got.regexes = None
             THEN [slot |-> got.slot, out |-> <<>>, outcome |-> "CompileFailure",
                   opened |-> TRUE, compiled |-> got.compiled]
             ELSE LET found == search_file_impl(f[1], got.regexes[1], incl)
                  IN  [slot |-> got.slot, out |-> found,
                       outcome |-> IF found = <<>> THEN "NoMatch" ELSE "Ok",
                       opened |-> TRUE, compiled |-> got.compiled]

\* The body of search_file: the slot it leaves, the list it returns, the
\* return statement it leaves through, and whether it reached File::open
\* and the RegexBuilder.
SearchFileCall(cache, f, pats, uni, incl) ==
    IF pats = <<>>
    THEN [slot |-> cache, out |-> <<>>, outcome |-> "EmptyPatterns",
          opened |-> FALSE, compiled |-> FALSE]
    ELSE LET got == GetOrCompile(cache, cache_key(pats, uni), pats, uni)
         IN  IF got.regexes = None
             THEN [slot |-> got.slot, out |-> <<>>, outcome |-> "CompileFailure",
                   opened |-> FALSE, compiled |-> got.compiled]
             ELSE IF f = None
             THEN [slot |-> got.slot, out |-> <<>>, outcome |-> "OpenFailure",
                   opened |-> TRUE, compiled |-> got.compiled]
             ELSE LET found == search_file_impl(f[1], got.regexes[1], incl)
                  IN  [slot |-> got.slot, out |-> found,
                       outcome |-> IF found = <<>> THEN "NoMatch" ELSE "Ok",
                       opened |-> TRUE, compiled |-> got.compiled]

-----------------------------------------------------------------------------
(* Inputs *)

\* "(a", "b)" and "(a\0b)"
Patterns == {<<40, 97>>, <<98, 41>>, <<40, 97, NUL, 98, 41>>}

PatternLists == SeqsUpTo(Patterns, MaxPatterns)

\* "A\0b\na" and "b\r\n"; None is a path that cannot be opened or mapped
Files == {None, Some(<<65, NUL, 98, LF, 97>>), Some(<<98, CR, LF>>)}

\* "a", "b", "" and "a\0b", compiled
ImplPatterns == {<<97>>, <<98>>, <<>>, <<97, NUL, 98>>}

ImplRegexLists ==
    {new_regexes(ps, uni)[1] :
        ps \in SeqsUpTo(ImplPatterns, MaxPatterns) \ {<<>>}, uni \in BOOLEAN}

ImplFiles == SeqsUpTo({NUL, LF, 65, 97, 98}, MaxFileLen)

ResolveFiles == SeqsUpTo({LF, CR, 97, 255}, MaxFileLen)

-----------------------------------------------------------------------------
(* search_file called repeatedly on one thread *)

Idle ==
    /\ bytes = <<>> /\ regexes = <<>> /\ positions = <<>> /\ pc = "idle"
    /\ idx = 0 /\ current_line = 1 /\ last_pos = 0 /\ seen_lines = {}
    /\ results = <<>>

Init ==
    /\ CACHED = None
    /\ file = None /\ patterns = <<>> /\ unicode = FALSE /\ include_lines = FALSE
    /\ out = <<>> /\ outcome = "NotCalled" /\ opened = FALSE /\ compiled = FALSE
    /\ last_compiled = None
    /\ Idle

search_file(f, pats, uni, incl) ==
    LET call == SearchFileCall(CACHED, f, pats, uni, incl)
    IN  /\ CACHED' = call.slot
        /\ file' = f /\ patterns' = pats /\ unicode' = uni /\ include_lines' = incl
        /\ out' = call.out
        /\ outcome' = call.outcome
        /\ opened' = call.opened
        /\ compiled' = call.compiled
        /\ last_compiled' = IF call.compiled /\ call.outcome # "CompileFailure"
                            THEN Some([patterns |-> pats, unicode |-> uni])
                            ELSE last_compiled
        /\ UNCHANGED <<bytes, regexes, positions, pc, walkVars, results>>

Next ==
    \E f \in Files, pats \in PatternLists, uni \in BOOLEAN, incl \in BOOLEAN :
        search_file(f, pats, uni, incl)

Spec == Init /\ [][Next]_vars

-----------------------------------------------------------------------------
(* search_file_impl applied to a byte view and a compiled set *)

NoCall ==
    /\ CACHED = None
    /\ file = None /\ patterns = <<>> /\ unicode = FALSE
    /\ out = <<>> /\ outcome = "NotCalled" /\ opened = FALSE /\ compiled = FALSE
    /\ last_compiled = None

InitImpl ==
    /\ NoCall
    /\ bytes \in ImplFiles
    /\ regexes \in ImplRegexLists
    /\ include_lines \in BOOLEAN
    /\ positions = <<>> /\ pc = "call"
    /\ idx = 0 /\ current_line = 1 /\ last_pos = 0 /\ seen_lines = {}
    /\ results = <<>>

RunSearchFileImpl ==
    /\ pc = "call"
    /\ results' = search_file_impl(bytes, regexes, include_lines)
    /\ pc' = "returned"
    /\ UNCHANGED <<callVars, include_lines, bytes, regexes, positions, walkVars>>

NextImpl == RunSearchFileImpl

SpecImpl == InitImpl /\ [][NextImpl]_vars

-----------------------------------------------------------------------------
(* positions_to_line_results, one loop iteration at a time *)

InitResolve ==
    /\ NoCall
    /\ bytes \in ResolveFiles
    /\ positions \in SeqsUpTo(0..MaxFileLen, MaxPositions)
    /\ \A i \in 1..Len(positions) : positions[i] <= Len(bytes)
    /\ include_lines \in BOOLEAN
    /\ regexes = <<>> /\ pc = "sort"
    /\ idx = 0 /\ current_line = 1 /\ last_pos = 0 /\ seen_lines = {}
    /\ results = <<>>

SortPositions ==
    /\ pc = "sort"
    /\ positions' = sort_dedup(positions)
    /\ pc' = "loop"
    /\ UNCHANGED <<callVars, include_lines, bytes, regexes, walkVars, results>>

LoopIteration ==
    /\ pc = "loop"
    /\ idx < Len(positions)
    /\ LET st == WalkStep(bytes,
                          [current_line |-> current_line, last_pos |-> last_pos,
                           seen_lines |-> seen_lines, results |-> results],
                          positions[idx + 1], include_lines)
       IN  /\ current_line' = st.current_line
           /\ last_pos' = st.last_pos
           /\ seen_lines' = st.seen_lines
           /\ results' = st.results
    /\ idx' = idx + 1
    /\ UNCHANGED <<callVars, include_lines, bytes, regexes, positions, pc>>

ReturnResults ==
    /\ pc = "loop"
    /\ idx = Len(positions)
    /\ pc' = "returned"
    /\ UNCHANGED <<callVars, include_lines, bytes, regexes, positions, walkVars,
                   results>>

NextResolve == SortPositions \/ LoopIteration \/ ReturnResults

SpecResolve == InitResolve /\ [][NextResolve]_vars

-----------------------------------------------------------------------------
(* Properties *)

\* Line number of offset p counted from the start of the file.
LineOf(bs, p) == 1 + Cardinality({k \in 1..p : bs[k] = LF})

\* Every offset at which the regex matches.
MatchStarts(regex, bs) ==
    {p \in 0..Len(bs) : MatchesAt(Literal(regex.pattern), bs, p)}

MatchLines(regex, bs) == {LineOf(bs, p) : p \in MatchStarts(regex, bs)}

LinesOf(rs) == {rs[i].line : i \in 1..Len(rs)}

LineSeq(rs) == [i \in 1..Len(rs) |-> rs[i].line]

C2_CacheTransparency ==
    outcome # "NotCalled" =>
        out = SearchFileCall(None, file, patterns, unicode, include_lines).out

\* C3: the line numbers of the results are at least 1 and strictly
\* ascending, and the positions of one line yield exactly one result.
C3_OrderingDedup ==
    /\ \A i \in 1..Len(results) : results[i].line >= 1
    /\ \A i, j \in 1..Len(results) : i < j => results[i].line < results[j].line
    /\ pc = "returned" =>
          \A k \in 1..Len(positions) :
              Cardinality({i \in 1..Len(results) :
                              results[i].line = LineOf(bytes, positions[k])}) = 1

\* Two distinct positions on one line gave a single result.
C3_Witness ==
    /\ pc = "returned"
    /\ Len(positions) = 2
    /\ LineOf(bytes, positions[1]) = LineOf(bytes, positions[2])
    /\ Len(results) = 1

SomePatternFailsToCompile(pats, uni) ==
    \E i \in 1..Len(pats) : build(pats[i], uni) = None

SomePatternMatchesNowhere(pats, uni, bs) ==
    \E i \in 1..Len(pats) :
        /\ build(pats[i], uni) # None
        /\ MatchStarts(build(pats[i], uni)[1], bs) = {}

\* C4: search_file returns the empty list when the pattern list is empty,
\* a pattern fails to compile, the file cannot be opened, or a pattern
\* matches nowhere; with an empty pattern list it does not open the file.
C4_SilentEmpty ==
    outcome # "NotCalled" =>
        /\ (\/ patterns = <<>>
            \/ SomePatternFailsToCompile(patterns, unicode)
            \/ file = None
            \/ SomePatternMatchesNowhere(patterns, unicode, file[1]))
           => out = <<>>
        /\ patterns = <<>> => ~opened

\* C5: a call whose pattern list holds a pattern that fails to compile
\* leaves the cache slot as it was.
C5_CompileFailureKeepsCache ==
    [][SomePatternFailsToCompile(patterns', unicode') => CACHED' = CACHED]_vars

\* A filled slot survived a call whose first pattern compiled and whose
\* second did not.
C5_Witness ==
    /\ outcome = "CompileFailure"
    /\ Len(patterns) = 2
    /\ build(patterns[1], unicode) # None
    /\ build(patterns[2], unicode) = None
    /\ CACHED # None

\* C6 as stated: a call that ends in OpenFailure or NoMatch leaves the
\* cache slot as it was.
C6_FailureNeverTouchesCache ==
    [][outcome' \in {"OpenFailure", "NoMatch"} => CACHED' = CACHED]_vars

\* C6 amended: a call that ends in OpenFailure or NoMatch leaves the slot
\* as the get-or-compile step left it: unchanged when the stored key equals
\* the computed key, otherwise holding the computed key with the compilation
\* of the requested patterns.
C6_FailureKeepsCompiledSet ==
    [][outcome' \in {"OpenFailure", "NoMatch"} =>
          IF CACHED # None /\ CACHED[1].cache_key = cache_key(patterns', unicode')
          THEN CACHED' = CACHED
          ELSE CACHED' = Some([cache_key |-> cache_key(patterns', unicode'),
                               regexes |-> [i \in 1..Len(patterns') |->
                                              [pattern |-> patterns'[i],
                                               unicode |-> unicode']]])]_vars

\* A call that compiled a new set and then could not open the file.
C6_Witness ==
    /\ outcome = "OpenFailure"
    /\ compiled
    /\ CACHED # None
    /\ CACHED[1].cache_key = cache_key(patterns, unicode)

\* Start and end of the line holding offset p, from their definitions.
LineStartOf(bs, p) ==
    CHOOSE s \in 0..p :
        /\ s = 0 \/ bs[s] = LF
        /\ \A k \in (s + 1)..p : bs[k] # LF

LineEndOf(bs, p) ==
    CHOOSE e \in p..Len(bs) :
        /\ e = Len(bs) \/ bs[e + 1] = LF
        /\ \A k \in (p + 1)..e : bs[k] # LF

LineBytesOf(bs, p) == SubSeq(bs, LineStartOf(bs, p) + 1, LineEndOf(bs, p))

Decoded(bs) ==
    [i \in 1..Len(bs) |-> IF bs[i] < 128 THEN bs[i] ELSE REPLACEMENT_CHARACTER]

StripOneCR(text) ==
    IF text # <<>> /\ text[Len(text)] = CR
    THEN SubSeq(text, 1, Len(text) - 1)
    ELSE text

\* text is the decoded line with every trailing carriage return removed
IsDecodedLineWithoutTrailingCRs(text, bs) ==
    /\ text = <<>> \/ text[Len(text)] # CR
    /\ Len(text) <= Len(bs)
    /\ \A i \in 1..Len(bs) :
          IF i <= Len(text) THEN Decoded(bs)[i] = text[i] ELSE bs[i] = CR

\* The positions consumed so far that lie on the line of result r.
ConsumedOn(r) ==
    {positions[k] : k \in {j \in 1..idx : LineOf(bytes, positions[j]) = r.line}}

\* C7 as stated: with include_lines, the text of a result is the (decoded)
\* bytes of its line, without the newline, less a single trailing carriage
\* return.
C7_LineTextStripsOneCR ==
    include_lines =>
        \A i \in 1..Len(results) : \A p \in ConsumedOn(results[i]) :
            results[i].text = StripOneCR(Decoded(LineBytesOf(bytes, p)))

\* C7 amended: with include_lines, the text of a result is the permissive
\* UTF-8 decoding of the bytes of its line, without the newline, less every
\* trailing carriage return.
C7_LineTextStripsAllCRs ==
    include_lines =>
        \A i \in 1..Len(results) : \A p \in ConsumedOn(results[i]) :
            IsDecodedLineWithoutTrailingCRs(results[i].text, LineBytesOf(bytes, p))

\* A result for a line that ends in "\r\n".
C7_Witness ==
    /\ include_lines
    /\ pc = "returned"
    /\ \E i \in 1..Len(results) : \E p \in ConsumedOn(results[i]) :
          LET line == LineBytesOf(bytes, p)
          IN  /\ LineEndOf(bytes, p) < Len(bytes)
              /\ Len(line) >= 2
              /\ line[Len(line)] = CR
              /\ results[i].text = SubSeq(line, 1, Len(line) - 1)

\* C8: without include_lines every result has the empty text, and the line
\* numbers are those of the same call with include_lines.
C8_TextSuppression ==
    (pc = "returned" /\ ~include_lines) =>
        /\ \A i \in 1..Len(results) : results[i].text = <<>>
        /\ LineSeq(results) = LineSeq(search_file_impl(bytes, regexes, TRUE))

\* A call without include_lines whose lines are not empty.
C8_Witness ==
    /\ pc = "returned"
    /\ ~include_lines
    /\ results # <<>>
    /\ \E r \in {search_file_impl(bytes, regexes, TRUE)[i] : i \in 1..Len(results)} :
          r.text # <<>>

SlotMatchesLastCompiled ==
    IF last_compiled = None
    THEN CACHED = None
    ELSE LET lc == last_compiled[1]
         IN  /\ CACHED # None
             /\ CACHED[1].cache_key = cache_key(lc.patterns, lc.unicode)
             /\ CACHED[1].regexes
                   = [i \in 1..Len(lc.patterns) |->
                        [pattern |-> lc.patterns[i], unicode |-> lc.unicode]]

HitLeavesSlot ==
    (/\ patterns' # <<>>
     /\ CACHED # None
     /\ CACHED[1].cache_key = cache_key(patterns', unicode'))
    => (~compiled' /\ CACHED' = CACHED)

\* C9: the slot is empty or holds the key and the regexes of the last
\* successful compilation, and a call whose key equals the stored key
\* compiles nothing and leaves the slot unchanged.
C9_CacheSlotInvariant ==
    []SlotMatchesLastCompiled /\ [][HitLeavesSlot]_vars

\* A call served from the slot.
C9_Witness ==
    /\ outcome \in {"Ok", "NoMatch", "OpenFailure"}
    /\ ~compiled
    /\ CACHED # None
    /\ CACHED[1].cache_key = cache_key(patterns, unicode)

\* C10: the running line counter at every consumed position equals 1 plus
\* the number of newline bytes below that position.
C10_ProgressiveLineCount ==
    (pc \in {"loop", "returned"} /\ idx >= 1) =>
        /\ last_pos = positions[idx]
        /\ current_line = LineOf(bytes, positions[idx])

\* The cursor stood on a newline byte and the next position is the file length.
C10_Witness ==
    /\ pc = "loop"
    /\ idx >= 2
    /\ positions[idx] = Len(bytes)
    /\ bytes[positions[idx - 1] + 1] = LF

====
